---- MODULE Spec2Model ----
(***************************************************************************)
(* pypprof: the pprof endpoint functions of src/pypprof/net_http.py and    *)
(* the FastAPI handler of src/pypprof/fastapi.py.                          *)
(*                                                                         *)
(* Three specifications:                                                   *)
(*   Spec         request threads calling the endpoint functions           *)
(*   SpecHeap     build_heap_pprof applied to one heap snapshot           *)
(*   SpecCmdline  cmdline applied to one argument vector                   *)
(***************************************************************************)
EXTENDS Integers, Sequences, FiniteSets, TLC

VARIABLES
    frame,          \* per thread: where it is inside profile()/wall()
    result,         \* per thread: the outcome of its last finished call
    handler_regs,   \* _wall_profiler.register_handler() calls that registered
    has_mprofile,   \* module flag set by the import at load time
    tracing,        \* mprofile.is_tracing()
    snapshots,      \* number of mprofile.take_snapshot() calls made
    argv,           \* sys.argv
    snap,           \* SpecHeap: the snapshot given to build_heap_pprof
    built,          \* SpecHeap: what build_heap_pprof did with it
    body            \* SpecCmdline: what cmdline returned

vars == <<frame, result, handler_regs, has_mprofile, tracing, snapshots,
          argv, snap, built, body>>

----------------------------------------------------------------------------
(* Bounds *)

NumThreads == 2
MaxRegs == 2
MaxSnapshots == 1
MaxEntries == 2
MaxFrames == 2
MaxArgs == 3
MaxArgLen == 1

Threads == 1..NumThreads
\* the thread the interpreter started on
MainThread == CHOOSE t \in Threads : \A u \in Threads : t <= u

\* duration_secs=30 in the signatures of profile() and wall()
DefaultDuration == 30

Durations == {-1, 0, 5, DefaultDuration}

----------------------------------------------------------------------------
(* Text.  A str is a sequence of code points, a bytes value a sequence of  *)
(* integers 0..255.                                                        *)

\* the separator "\0" of cmdline()
NUL == 0

\* the code points arguments are drawn from: "a", U+00E9, and the lone
\* surrogate U+DC80, which is what a command-line byte 0x80 that is not
\* UTF-8 becomes in sys.argv (surrogateescape).  An argument holds no NUL:
\* the operating system passes arguments as NUL-terminated strings.
ArgChars == {97, 233, 56448}

SeqsUpTo(S, n) == UNION {[1..k -> S] : k \in 0..n}

ArgStrings == SeqsUpTo(ArgChars, MaxArgLen)
Argvs == SeqsUpTo(ArgStrings, MaxArgs) \ {<<>>}

IsSurrogate(cp) == cp \in 55296..57343

\* the UTF-8 bytes of one code point that is not a surrogate
Utf8Char(cp) ==
    IF cp < 128 THEN <<cp>>
    ELSE IF cp < 2048 THEN <<192 + (cp \div 64), 128 + (cp % 64)>>
    ELSE <<224 + (cp \div 4096), 128 + ((cp \div 64) % 64), 128 + (cp % 64)>>

RECURSIVE Utf8Bytes(_)
Utf8Bytes(str) ==
    IF str = <<>> THEN <<>>
    ELSE Utf8Char(Head(str)) \o Utf8Bytes(Tail(str))

\* str.encode("utf-8"): strict, so a lone surrogate raises
EncodeUtf8(str) ==
    IF \E i \in 1..Len(str) : IsSurrogate(str[i])
    THEN [kind |-> "UnicodeEncodeError", bytes |-> <<>>]
    ELSE [kind |-> "bytes", bytes |-> Utf8Bytes(str)]

\* sep.join(strs)
RECURSIVE Join(_, _)
Join(sep, strs) ==
    IF strs = <<>> THEN <<>>
    ELSE IF Len(strs) = 1 THEN strs[1]
    ELSE strs[1] \o sep \o Join(sep, Tail(strs))

\* cmdline(): "\0".join(sys.argv).encode("utf-8")
cmdline(args) == EncodeUtf8(Join(<<NUL>>, args))

----------------------------------------------------------------------------
(* Heap snapshots and build_heap_pprof                                     *)

Names == {"f", "g"}
Filenames == {"a.py", "b.py"}
Linenos == {1, 2}

AllFrames == [name : Names, filename : Filenames,
              firstlineno : Linenos, lineno : Linenos]

BaseFrame == [name |-> "f", filename |-> "a.py", firstlineno |-> 1, lineno |-> 2]

FieldsDiffering(f, g) ==
      (IF f.name = g.name THEN 0 ELSE 1)
    + (IF f.filename = g.filename THEN 0 ELSE 1)
    + (IF f.firstlineno = g.firstlineno THEN 0 ELSE 1)
    + (IF f.lineno = g.lineno THEN 0 ELSE 1)

\* the base frame and the four frames that differ from it in one field
Frames == {f \in AllFrames : FieldsDiffering(f, BaseFrame) <= 1}

\* tracebacks of at most MaxFrames frames, at most one of them not the base
Tracebacks ==
    {tb \in SeqsUpTo(Frames, MaxFrames) :
        Cardinality({i \in 1..Len(tb) : tb[i] # BaseFrame}) <= 1}

Measurements == {<<3, 100>>, <<2, 50>>}

\* one element of snap.statistics("traceback")
Stats == {[traceback |-> tb, count |-> m[1], size |-> m[2]] :
            tb \in Tracebacks, m \in Measurements}

Snapshots == SeqsUpTo(Stats, MaxEntries)

\* a key that leaves the executing line out of each frame
TraceKeyNoLineno(tb) ==
    [i \in 1..Len(tb) |-> <<tb[i].name, tb[i].filename, tb[i].firstlineno>>]

\* the dict key of lines 95-98: one 4-tuple per frame, in traceback order
TraceKey(tb) ==
    [i \in 1..Len(tb) |->
        <<tb[i].name, tb[i].filename, tb[i].firstlineno, tb[i].lineno>>]

NoSamples == [k \in {} |-> <<0, 0>>]

\* one turn of the for loop of lines 94-103.  samples[trace] of an absent
\* key raises KeyError, which the except clause turns into an insert of the
\* tuple (count, size); with the key present, `samples[trace][0] += ...`
\* assigns to an item of that tuple, which raises TypeError; nothing catches
\* it, and the loop ends there.
HeapLoopStep(acc, stat, i) ==
    LET trace == TraceKey(stat.traceback) IN
    IF acc.raised # "none" THEN acc
    ELSE IF trace \in DOMAIN acc.samples
    THEN [acc EXCEPT !.raised = "TypeError", !.at = i]
    ELSE [acc EXCEPT !.samples =
            [k \in DOMAIN acc.samples \cup {trace} |->
                IF k = trace THEN <<stat.count, stat.size>> ELSE acc.samples[k]]]

RECURSIVE HeapLoop(_, _)
HeapLoop(stats, n) ==
    IF n = 0 THEN [samples |-> NoSamples, raised |-> "none", at |-> 0]
    ELSE HeapLoopStep(HeapLoop(stats, n - 1), stats[n], n)

\* Builder.populate_profile(samples, "HEAP", "bytes", ...) and emit(): the
\* encoded profile, kept as the samples it was given
BuilderEmit(samples) == [kind |-> "pprof", profile_type |-> "HEAP", samples |-> samples]

\* build_heap_pprof(snap): the emitted profile, or the exception raised
build_heap_pprof(stats) ==
    LET acc == HeapLoop(stats, Len(stats)) IN
    IF acc.raised # "none"
    THEN [kind |-> acc.raised, at |-> acc.at, samples |-> acc.samples]
    ELSE [kind |-> "pprof", at |-> 0, samples |-> BuilderEmit(acc.samples).samples]

----------------------------------------------------------------------------
(* The endpoint functions, called by request threads                       *)

Ready == [pc |-> "ready"]
NoResult == [op |-> "none", out |-> "none"]

\* what CPUProfiler.profile / WallProfiler.profile can end in: the encoded
\* profile, or an exception of the sampler's own, which propagates
SamplerOutcomes == {"pprof", "exception"}

\* positional arguments a caller passes to profile() or wall()
SelfArg == "self"
DispatchArgs == {<<SelfArg>>} \cup {<<SelfArg, d>> : d \in Durations}

\* binding of positional arguments to (self, duration_secs=30)
BindArgs(args) ==
    IF Len(args) = 0
    THEN [kind |-> "TypeError", duration_secs |-> DefaultDuration]
    ELSE [kind |-> "ok",
          duration_secs |-> IF Len(args) >= 2 THEN args[2] ELSE DefaultDuration]

\* the grouped statistics of a snapshot mprofile takes: one entry per
\* distinct traceback
Grouped(stats) ==
    \A i, j \in 1..Len(stats) :
        stats[i].traceback = stats[j].traceback => i = j

\* the snapshots take_snapshot() is taken to return: none, one or two
\* allocation sites, at lines 2 and 1 of one function
TakenSnapshots ==
    {s \in Snapshots :
        /\ Grouped(s)
        /\ Len(s) <= 2
        /\ \A i \in 1..Len(s) :
              /\ s[i].traceback = <<[BaseFrame EXCEPT !.lineno = 3 - i]>>
              /\ s[i].count = 3}

\* the argument vector the served process was started with
ServerArgv == <<<<97>>, <<233>>>>

CpuRunning == {t \in Threads : frame[t].pc = "cpu_profile"}
WallRunning == {t \in Threads : frame[t].pc = "wall_profile"}

\* profile(*args), lines 51-55, up to the call of cpu_profiler.profile:
\* a CPUProfiler is constructed and its profile(duration_secs) entered
profile(t, args, handler) ==
    LET b == BindArgs(args) IN
    /\ frame[t].pc = "ready"
    /\ IF b.kind = "TypeError"
       THEN /\ result' = [result EXCEPT ![t] = [op |-> handler, out |-> "TypeError"]]
            /\ UNCHANGED frame
       ELSE /\ frame' = [frame EXCEPT ![t] =
                    [pc |-> "cpu_profile", duration_secs |-> b.duration_secs,
                     handler |-> handler]]
            /\ result' = [result EXCEPT ![t] = [op |-> handler, out |-> "running"]]
    /\ UNCHANGED <<handler_regs, has_mprofile, tracing, snapshots, argv,
                   snap, built, body>>

Profile(t, args) == profile(t, args, "profile")

\* handle_profile(request), fastapi.py lines 14-20: p = profile()
HandleProfile(t) == profile(t, <<>>, "handle_profile")

\* cpu_profiler.profile(duration_secs) ends; profile() returns what it
\* returned, and handle_profile wraps that in a Response
ProfileReturn(t, outcome) ==
    /\ frame[t].pc = "cpu_profile"
    /\ frame' = [frame EXCEPT ![t] = Ready]
    /\ result' = [result EXCEPT ![t] =
            IF frame[t].handler = "handle_profile" /\ outcome = "pprof"
            THEN [op |-> "handle_profile", out |-> "Response", body |-> outcome,
                  content_type |-> "application/octet-stream",
                  content_disposition |-> "attachment; filename=\"profile\""]
            ELSE [op |-> frame[t].handler, out |-> outcome]]
    /\ UNCHANGED <<handler_regs, has_mprofile, tracing, snapshots, argv,
                   snap, built, body>>

\* wall(*args), lines 58-61, up to the call of _wall_profiler.profile
wall(t, args) ==
    LET b == BindArgs(args) IN
    /\ frame[t].pc = "ready"
    /\ IF b.kind = "TypeError"
       THEN /\ result' = [result EXCEPT ![t] = [op |-> "wall", out |-> "TypeError"]]
            /\ UNCHANGED frame
       ELSE /\ frame' = [frame EXCEPT ![t] =
                    [pc |-> "wall_profile", duration_secs |-> b.duration_secs]]
            /\ result' = [result EXCEPT ![t] = [op |-> "wall", out |-> "running"]]
    /\ UNCHANGED <<handler_regs, has_mprofile, tracing, snapshots, argv,
                   snap, built, body>>

\* wall() behind one lock shared with profile(): rejected while a CPU
\* session runs
WallSharedLock(t, args) ==
    IF CpuRunning # {}
    THEN /\ frame[t].pc = "ready"
         /\ result' = [result EXCEPT ![t] = [op |-> "wall", out |-> "AlreadyProfiling"]]
         /\ UNCHANGED <<frame, handler_regs, has_mprofile, tracing, snapshots, argv,
                        snap, built, body>>
    ELSE wall(t, args)

Wall(t, args) == wall(t, args)

WallReturn(t, outcome) ==
    /\ frame[t].pc = "wall_profile"
    /\ frame' = [frame EXCEPT ![t] = Ready]
    /\ result' = [result EXCEPT ![t] = [op |-> "wall", out |-> outcome]]
    /\ UNCHANGED <<handler_regs, has_mprofile, tracing, snapshots, argv,
                   snap, built, body>>

\* start_pprof(), lines 36-41: _wall_profiler.register_handler(), whichever
\* thread calls it and however often.  On the main thread the handler is
\* registered, again each time; on any other thread Python refuses to set a
\* signal handler (ValueError), as the comment of lines 37-38 says.
StartPprof(t) ==
    /\ frame[t].pc = "ready"
    /\ handler_regs < MaxRegs
    /\ handler_regs' = IF t = MainThread THEN handler_regs + 1 ELSE handler_regs
    /\ result' = [result EXCEPT ![t] =
            [op |-> "start_pprof",
             out |-> IF t = MainThread THEN "None" ELSE "ValueError"]]
    /\ UNCHANGED <<frame, has_mprofile, tracing, snapshots, argv, snap, built, body>>

HTTP412NoMprofile == "412 mprofile must be installed to enable heap profiling"
HTTP412NotTracing == "412 Heap profiling is not enabled"

\* heap(self, run_gc), lines 64-76
heap(t, run_gc, stats) ==
    /\ frame[t].pc = "ready"
    /\ IF ~has_mprofile
       THEN /\ result' = [result EXCEPT ![t] = [op |-> "heap", out |-> HTTP412NoMprofile]]
            /\ UNCHANGED snapshots
       ELSE IF ~tracing
       THEN /\ result' = [result EXCEPT ![t] = [op |-> "heap", out |-> HTTP412NotTracing]]
            /\ UNCHANGED snapshots
       ELSE /\ snapshots < MaxSnapshots
            /\ snapshots' = snapshots + 1
            /\ result' = [result EXCEPT ![t] =
                    [op |-> "heap", out |-> build_heap_pprof(stats).kind]]
    /\ UNCHANGED <<frame, handler_regs, has_mprofile, tracing, argv, snap, built, body>>

\* heap() without the is_tracing() test of line 72
HeapUnchecked(t, run_gc, stats) ==
    /\ frame[t].pc = "ready"
    /\ IF ~has_mprofile
       THEN /\ result' = [result EXCEPT ![t] = [op |-> "heap", out |-> HTTP412NoMprofile]]
            /\ UNCHANGED snapshots
       ELSE /\ snapshots < MaxSnapshots
            /\ snapshots' = snapshots + 1
            /\ result' = [result EXCEPT ![t] =
                    [op |-> "heap", out |-> build_heap_pprof(stats).kind]]
    /\ UNCHANGED <<frame, handler_regs, has_mprofile, tracing, argv, snap, built, body>>

Heap(t, run_gc, stats) == heap(t, run_gc, stats)

\* thread_profiler.take_snapshot(): the encoded profile of the threads' stacks
ThreadSnapshot == "pprof"

\* thread(self, debug), lines 79-82
thread(t, debug) ==
    /\ frame[t].pc = "ready"
    /\ result' = [result EXCEPT ![t] = [op |-> "thread", out |-> ThreadSnapshot]]
    /\ UNCHANGED <<frame, handler_regs, has_mprofile, tracing, snapshots, argv,
                   snap, built, body>>

\* thread() that ends the sampling sessions in progress
ThreadStopsSessions(t, debug) ==
    /\ frame[t].pc = "ready"
    /\ frame' = [u \in Threads |-> Ready]
    /\ result' = [result EXCEPT ![t] = [op |-> "thread", out |-> "pprof"]]
    /\ UNCHANGED <<handler_regs, has_mprofile, tracing, snapshots, argv,
                   snap, built, body>>

Thread(t, debug) == thread(t, debug)

\* cmdline(self), lines 85-88, on the process's sys.argv
Cmdline(t) ==
    /\ frame[t].pc = "ready"
    /\ result' = [result EXCEPT ![t] = [op |-> "cmdline", out |-> cmdline(argv).kind]]
    /\ UNCHANGED <<frame, handler_regs, has_mprofile, tracing, snapshots, argv,
                   snap, built, body>>

\* the application starts or stops mprofile's tracing
SetTracing(on) ==
    /\ has_mprofile
    /\ tracing # on
    /\ tracing' = on
    /\ UNCHANGED <<frame, result, handler_regs, has_mprofile, snapshots, argv,
                   snap, built, body>>

NotBuilt == [kind |-> "pending", at |-> 0, samples |-> NoSamples]
NotEncoded == [kind |-> "pending", bytes |-> <<>>]

Init ==
    /\ frame = [t \in Threads |-> Ready]
    /\ result = [t \in Threads |-> NoResult]
    /\ handler_regs = 0
    /\ has_mprofile \in BOOLEAN
    /\ tracing = FALSE
    /\ snapshots = 0
    /\ argv = ServerArgv
    /\ snap = <<>>
    /\ built = NotBuilt
    /\ body = NotEncoded

Next ==
    \E t \in Threads :
        \/ \E args \in DispatchArgs : Profile(t, args)
        \/ HandleProfile(t)
        \/ \E o \in SamplerOutcomes : ProfileReturn(t, o)
        \/ \E args \in DispatchArgs : Wall(t, args)
        \/ \E o \in SamplerOutcomes : WallReturn(t, o)
        \/ StartPprof(t)
        \/ \E g \in BOOLEAN, s \in TakenSnapshots : Heap(t, g, s)
        \/ \E d \in BOOLEAN : Thread(t, d)
        \/ Cmdline(t)
        \/ \E on \in BOOLEAN : SetTracing(on)

Spec == Init /\ [][Next]_vars

----------------------------------------------------------------------------
(* build_heap_pprof on one snapshot                                        *)

InitHeap ==
    /\ frame = [t \in Threads |-> Ready]
    /\ result = [t \in Threads |-> NoResult]
    /\ handler_regs = 0
    /\ has_mprofile = TRUE
    /\ tracing = TRUE
    /\ snapshots = 0
    /\ argv = ServerArgv
    /\ snap \in Snapshots
    /\ built = NotBuilt
    /\ body = NotEncoded

BuildHeapPprof ==
    /\ built.kind = "pending"
    /\ built' = build_heap_pprof(snap)
    /\ UNCHANGED <<frame, result, handler_regs, has_mprofile, tracing, snapshots,
                   argv, snap, body>>

SpecHeap == InitHeap /\ [][BuildHeapPprof]_vars

----------------------------------------------------------------------------
(* cmdline on one argument vector                                          *)

InitCmdline ==
    /\ frame = [t \in Threads |-> Ready]
    /\ result = [t \in Threads |-> NoResult]
    /\ handler_regs = 0
    /\ has_mprofile = FALSE
    /\ tracing = FALSE
    /\ snapshots = 0
    /\ argv \in Argvs
    /\ snap = <<>>
    /\ built = NotBuilt
    /\ body = NotEncoded

CmdlineBody ==
    /\ body.kind = "pending"
    /\ body' = cmdline(argv)
    /\ UNCHANGED <<frame, result, handler_regs, has_mprofile, tracing, snapshots,
                   argv, snap, built>>

SpecCmdline == InitCmdline /\ [][CmdlineBody]_vars

----------------------------------------------------------------------------
(* Properties                                                              *)

Sampling(t) == frame[t].pc \in {"cpu_profile", "wall_profile"}

\* the frames of the threads inside each sampler, with their durations
CpuSessions == [t \in CpuRunning |-> frame[t]]
WallSessions == [t \in WallRunning |-> frame[t]]

\* C1: session exclusivity per kind: in every interleaving of concurrent
\* start calls, at any moment at most one thread is inside the CPU sampler
\* and at most one thread is inside the wall-clock sampler.
C1_SessionExclusivity ==
    /\ Cardinality(CpuRunning) <= 1
    /\ Cardinality(WallRunning) <= 1

RECURSIVE CountUpTo(_, _, _)
\* the sum of the counts of the entries of stats[1..n] with traceback tb
CountUpTo(stats, n, tb) ==
    IF n = 0 THEN 0
    ELSE CountUpTo(stats, n - 1, tb)
            + (IF stats[n].traceback = tb THEN stats[n].count ELSE 0)

RECURSIVE SizeUpTo(_, _, _)
\* the sum of the sizes of the entries of stats[1..n] with traceback tb
SizeUpTo(stats, n, tb) ==
    IF n = 0 THEN 0
    ELSE SizeUpTo(stats, n - 1, tb)
            + (IF stats[n].traceback = tb THEN stats[n].size ELSE 0)

CountOf(stats, tb) == CountUpTo(stats, Len(stats), tb)
SizeOf(stats, tb) == SizeUpTo(stats, Len(stats), tb)

\* the sample key that stands for a traceback: its frames' four fields
SampleKey(tb) ==
    [i \in 1..Len(tb) |->
        <<tb[i].name, tb[i].filename, tb[i].firstlineno, tb[i].lineno>>]

TracesOf(stats) == {stats[i].traceback : i \in 1..Len(stats)}

\* C2: aggregation merge law: build_heap_pprof completes on every snapshot
\* and gives the builder exactly one sample per distinct trace, holding the
\* sum of the counts and the sum of the sizes of the entries with that trace.
C2_AggregationMergeLaw ==
    built.kind # "pending" =>
        /\ built.kind = "pprof"
        /\ DOMAIN built.samples = {SampleKey(tb) : tb \in TracesOf(snap)}
        /\ \A tb \in TracesOf(snap) :
              built.samples[SampleKey(tb)] = <<CountOf(snap, tb), SizeOf(snap, tb)>>

\* C3: duration validation: a request whose duration is zero or negative
\* is refused before any sampler is constructed or entered, so no thread is
\* ever inside a sampler with a duration of zero or less.
C3_DurationValidation ==
    \A t \in Threads : Sampling(t) => frame[t].duration_secs > 0

\* C4: heap precondition: a heap call made while mprofile is missing or not
\* tracing ends in a 412 response and takes no snapshot; a heap call made
\* while it is tracing takes one snapshot and returns the encoded profile;
\* and no snapshot is taken in any other way.
C4_HeapPrecondition ==
    [][ /\ \A t \in Threads :
              (result'[t] # result[t] /\ result'[t].op = "heap") =>
                  IF has_mprofile /\ tracing
                  THEN /\ result'[t].out = "pprof"
                       /\ snapshots' = snapshots + 1
                  ELSE /\ result'[t].out =
                            (IF has_mprofile THEN HTTP412NotTracing ELSE HTTP412NoMprofile)
                       /\ snapshots' = snapshots
        /\ snapshots' # snapshots =>
              /\ has_mprofile /\ tracing
              /\ \E t \in Threads : result'[t] = [op |-> "heap", out |-> "pprof"]
      ]_vars

\* a heap request was refused for want of tracing, and one made after tracing
\* was switched on took a snapshot and returned a profile
C4_Witness ==
    /\ snapshots = 1
    /\ tracing
    /\ \E t, u \in Threads :
          /\ result[t] = [op |-> "heap", out |-> HTTP412NotTracing]
          /\ result[u] = [op |-> "heap", out |-> "pprof"]

\* C5: one-time initialization: over any sequence of start_pprof calls the
\* wall-clock sampler's signal handler is registered at most once, a second
\* call failing instead of registering again, and never from a thread other
\* than the main thread.
C5_OneTimeInitialization ==
    /\ handler_regs <= 1
    /\ \A t \in Threads \ {MainThread} :
          result[t] # [op |-> "start_pprof", out |-> "None"]

\* C6: CPU profile endpoint: a request to handle_profile runs a CPU profile
\* of the default 30 seconds and ends in a Response whose body is the
\* profiler's bytes, with Content-Type application/octet-stream and the
\* attachment filename "profile"; it never ends in an error.
C6_CpuProfileEndpoint ==
    \A t \in Threads :
        result[t].op = "handle_profile" =>
            \/ /\ result[t].out = "running"
               /\ frame[t].pc = "cpu_profile"
               /\ frame[t].duration_secs = DefaultDuration
            \/ /\ result[t].out = "Response"
               /\ result[t].body = "pprof"
               /\ result[t].content_type = "application/octet-stream"
               /\ result[t].content_disposition = "attachment; filename=\"profile\""

\* the bytes of one argument as the process received it: UTF-8, a lone
\* surrogate U+DC80..U+DCFF standing for the byte 0x80..0xFF it escapes
RECURSIVE ArgBytes(_)
ArgBytes(str) ==
    IF str = <<>> THEN <<>>
    ELSE (IF Head(str) \in 56448..56575
          THEN <<Head(str) - 56320>>
          ELSE Utf8Char(Head(str))) \o ArgBytes(Tail(str))

RECURSIVE SplitAt(_, _)
\* the pieces of a byte string between its occurrences of the byte b
SplitAt(bytes, b) ==
    IF \A i \in 1..Len(bytes) : bytes[i] # b THEN <<bytes>>
    ELSE LET i == CHOOSE k \in 1..Len(bytes) :
                    bytes[k] = b /\ \A m \in 1..(k - 1) : bytes[m] # b
         IN <<SubSeq(bytes, 1, i - 1)>> \o SplitAt(SubSeq(bytes, i + 1, Len(bytes)), b)

\* C7: cmdline fidelity: for an argument vector of n >= 1 arguments the
\* output is the arguments' bytes in order with one NUL between consecutive
\* arguments, n-1 NULs in all, no NUL first or last, nothing added or removed.
C7_CmdlineFidelity ==
    body.kind # "pending" =>
        /\ body.kind = "bytes"
        /\ SplitAt(body.bytes, NUL) = [i \in 1..Len(argv) |-> ArgBytes(argv[i])]
        /\ Cardinality({i \in 1..Len(body.bytes) : body.bytes[i] = NUL}) = Len(argv) - 1
        /\ body.bytes # <<>> =>
              body.bytes[1] # NUL /\ body.bytes[Len(body.bytes)] # NUL

\* C8: independence of kinds: a thread that is ready can always enter a CPU
\* session and can always enter a wall-clock session, whatever sessions are
\* running; no call ends in AlreadyProfiling; and a step that changes the
\* set of running sessions of one kind leaves the sessions of the other kind
\* as they were.
C8_IndependenceOfKinds ==
    /\ [](\A t \in Threads :
            /\ result[t].out # "AlreadyProfiling"
            /\ frame[t].pc = "ready" =>
                  /\ ENABLED (Wall(t, <<SelfArg>>) /\ frame'[t].pc = "wall_profile")
                  /\ ENABLED (Profile(t, <<SelfArg>>) /\ frame'[t].pc = "cpu_profile"))
    /\ [][ /\ WallRunning' # WallRunning => CpuSessions' = CpuSessions
           /\ CpuRunning' # CpuRunning => WallSessions' = WallSessions ]_vars

\* a CPU session and a wall-clock session are running at once
C8_Witness == CpuRunning # {} /\ WallRunning # {}

\* the entries of the snapshot that got a sample before the build ended
Recorded == IF built.kind = "TypeError" THEN built.at - 1 ELSE Len(snap)

\* C9: non-merge law: two entries whose traces differ in the number of
\* frames, their order or any field of a frame get two separate samples,
\* each with its own entry's count and size, and an entry whose trace
\* differs from that of every entry before it is never the one that fails.
C9_NonMergeLaw ==
    built.kind # "pending" =>
        /\ built.kind = "TypeError" =>
              \E i \in 1..(built.at - 1) : snap[i].traceback = snap[built.at].traceback
        /\ \A i, j \in 1..Recorded :
              snap[i].traceback # snap[j].traceback =>
                  /\ SampleKey(snap[i].traceback) # SampleKey(snap[j].traceback)
                  /\ SampleKey(snap[i].traceback) \in DOMAIN built.samples
                  /\ SampleKey(snap[j].traceback) \in DOMAIN built.samples
                  /\ built.samples[SampleKey(snap[i].traceback)] =
                        <<snap[i].count, snap[i].size>>
                  /\ built.samples[SampleKey(snap[j].traceback)] =
                        <<snap[j].count, snap[j].size>>

\* two entries that differ in the executing line of one frame alone, with
\* different measurements, were built into two samples
C9_Witness ==
    /\ built.kind = "pprof"
    /\ Len(snap) = 2
    /\ Len(snap[1].traceback) = 2
    /\ \E n \in 1..2 :
          /\ snap[2].traceback =
                [snap[1].traceback EXCEPT ![n].lineno = 3 - snap[1].traceback[n].lineno]
    /\ snap[1].count # snap[2].count
    /\ Cardinality(DOMAIN built.samples) = 2

SnapshotOps == {"heap", "thread", "cmdline"}

\* C10: snapshot operations are independent of sampling sessions: a ready
\* thread can always call heap, thread and cmdline, whatever sessions are
\* running, and a step in which one of them returns leaves every thread's
\* session and the wall-clock profiler's registration as they were.
C10_SnapshotOpsIndependent ==
    /\ [](\A t \in Threads :
            frame[t].pc = "ready" =>
                /\ ENABLED Thread(t, FALSE)
                /\ ENABLED Cmdline(t)
                /\ (snapshots < MaxSnapshots \/ ~(has_mprofile /\ tracing)) =>
                      ENABLED Heap(t, FALSE, <<>>))
    /\ [][ (\E t \in Threads :
                result'[t] # result[t] /\ result'[t].op \in SnapshotOps)
            => UNCHANGED <<frame, handler_regs>> ]_vars

\* heap, thread and cmdline results stand beside a CPU and a wall-clock
\* session in progress
C10_Witness ==
    \E t, u \in Threads :
        /\ Sampling(t)
        /\ result[u].op \in SnapshotOps
        /\ frame[u].pc = "ready"

====
